---- MODULE Spec2Model ----
(***************************************************************************)
(* Model of src/src/App.tsx: the project registry (add / edit / delete)    *)
(* and the sequential countdown (start, tick, pause, navigate, exit) of    *)
(* the React component App.                                                *)
(*                                                                         *)
(* One action is one event handler together with the render and the        *)
(* useEffect passes React runs as a consequence of its state updates,      *)
(* until no effect changes state any more (RunEffect).                     *)
(* Indices are 0-based as in the code: the project at index i is           *)
(* projects[i + 1].                                                        *)
(***************************************************************************)
EXTENDS Integers, Sequences, FiniteSets, TLC

VARIABLES
    projects,            \* useState<Project[]>([])            line 11
    currentProject,      \* useState<number>(-1)               line 12
    isRunning,           \* useState(false)                    line 13
    isPaused,            \* useState(false)                    line 14
    timeLeft,            \* useState(0)                        line 15
    backgroundColor,     \* useState('#ffffff')                line 16
    newProjectName,      \* useState('')                       line 17
    newProjectDuration,  \* useState(''), a sequence of chars  line 18
    editingProject,      \* useState<string | null>(null)      line 19
    isFullscreen,        \* useState(false)                    line 20
    fullscreenElement,   \* whether document.fullscreenElement is set
    lastOp,              \* observer: the handler that ran last
    alarms,              \* observer: playAlarm() calls made by the last handler
    completes,           \* observer: run completions (line 141) made by the last handler
    streak,              \* observer: the start-then-ticks-only run in progress
    timers               \* the number of live setInterval timers (lines 130, 150)

vars == <<projects, currentProject, isRunning, isPaused, timeLeft, backgroundColor,
          newProjectName, newProjectDuration, editingProject, isFullscreen,
          fullscreenElement, lastOp, alarms, completes, streak, timers>>

registryVars == <<projects, newProjectName, newProjectDuration, editingProject>>
engineVars == <<currentProject, isRunning, isPaused, timeLeft, backgroundColor,
                isFullscreen, fullscreenElement>>

---------------------------------------------------------------------------
(* Bounds and input samples *)

MaxProjects == 2

\* Values Math.random().toString(36).substr(2, 9) may return (line 41).
Ids == {"id1", "id2"}

\* Values typed into the name field; "" is the empty field.
Names == {"", "A", "B"}

\* Values the type="number" duration field can hold, as character sequences:
\* empty, "0", "1", "-1", "1.5" and "12".
DurationInputs ==
    { <<>>, <<"0">>, <<"1">>, <<"-", "1">>, <<"1", ".", "5">>, <<"1", "2">> }

\* The durations the countdown is run on: those of "0", "1" and "-1".
EngineInputs == { <<"0">>, <<"1">>, <<"-", "1">> }

\* Values Math.floor(Math.random() * 360) may return (line 26).
Hues == {0, 359}

---------------------------------------------------------------------------
(* Pure helpers *)

SecondsPerMinute == 60

NoProject == -1

Null == "null"

White == <<"#ffffff">>

\* generateRandomColor, for the hue Math.random gave.
generateRandomColor(hue) == <<"hsl", hue, 70, 80>>

IsDigit(c) == c \in {"0", "1", "2", "3", "4", "5", "6", "7", "8", "9"}

DigitValue(c) ==
    CASE c = "0" -> 0 [] c = "1" -> 1 [] c = "2" -> 2 [] c = "3" -> 3
      [] c = "4" -> 4 [] c = "5" -> 5 [] c = "6" -> 6 [] c = "7" -> 7
      [] c = "8" -> 8 [] c = "9" -> 9

DigitChar(d) ==
    CASE d = 0 -> "0" [] d = 1 -> "1" [] d = 2 -> "2" [] d = 3 -> "3"
      [] d = 4 -> "4" [] d = 5 -> "5" [] d = 6 -> "6" [] d = 7 -> "7"
      [] d = 8 -> "8" [] d = 9 -> "9"

RECURSIVE ParseDigits(_, _)
ParseDigits(s, acc) ==
    IF s = <<>> \/ ~IsDigit(Head(s))
        THEN acc
        ELSE ParseDigits(Tail(s), acc * 10 + DigitValue(Head(s)))

\* JavaScript parseInt on a string that has a digit after its optional sign
\* (every non-empty member of DurationInputs has): the sign, then the longest
\* run of digits; whatever follows (".5") is ignored.
parseInt(s) ==
    IF Head(s) = "-" THEN 0 - ParseDigits(Tail(s), 0)
    ELSE IF Head(s) = "+" THEN ParseDigits(Tail(s), 0)
    ELSE ParseDigits(s, 0)

RECURSIVE NatToString(_)
NatToString(n) ==
    IF n < 10 THEN <<DigitChar(n)>>
    ELSE Append(NatToString(n \div 10), DigitChar(n % 10))

\* JavaScript String(n) for an integer n.
NumberToString(n) ==
    IF n < 0 THEN <<"-">> \o NatToString(0 - n) ELSE NatToString(n)

\* JavaScript truthiness of a string: every string but the empty one.
Truthy(s) == Len(s) > 0

\* The form check of addProject and saveEdit (lines 37 and 62).
FormFilled == newProjectName /= "" /\ Truthy(newProjectDuration)

\* parseInt(newProjectDuration) * 60 (lines 39 and 66).
DurationOf(s) == parseInt(s) * SecondsPerMinute

\* projects[i] of the code, i 0-based.
ProjectAt(i) == projects[i + 1]

\* Whether the row of the project at index i is rendered in edit mode (line 215).
RowInEditMode(i) == editingProject = ProjectAt(i).id

---------------------------------------------------------------------------
(* The countdown effect, lines 126-151 *)

\* The state the effect and the engine handlers work on.
Engine ==
    [ isRunning |-> isRunning, isPaused |-> isPaused, timeLeft |-> timeLeft,
      currentProject |-> currentProject, backgroundColor |-> backgroundColor,
      isFullscreen |-> isFullscreen, fullscreenElement |-> fullscreenElement,
      alarms |-> 0, completes |-> 0 ]

\* toggleFullscreen (lines 105-115); granted: whether the browser grants a
\* requestFullscreen(). fullscreenRef.current is the root div, always mounted.
toggleFullscreen(e, granted) ==
    IF ~e.fullscreenElement
        THEN [e EXCEPT !.fullscreenElement = granted, !.isFullscreen = TRUE]
        ELSE [e EXCEPT !.fullscreenElement = FALSE, !.isFullscreen = FALSE]

\* Line 129 without its !isPaused conjunct.
IntervalArmedIgnoringPause(e) == e.isRunning /\ e.timeLeft > 0

\* The condition under which the effect arms the one-second interval (line 129).
IntervalArmed(e) == e.isRunning /\ ~e.isPaused /\ e.timeLeft > 0

\* The condition of the expiry branch (line 133).
Expired(e) == e.isRunning /\ e.timeLeft = 0

\* Whether the expiry branch advances rather than completes (line 136).
HasNext(e) == e.currentProject < Len(projects) - 1

\* The advance of the expiry branch (lines 137-139).
Advance(e, hue) ==
    [e EXCEPT !.currentProject = @ + 1,
              !.timeLeft = ProjectAt(e.currentProject + 1).duration,
              !.backgroundColor = generateRandomColor(hue)]

\* The completion of the expiry branch (lines 141-146).
Complete(e, granted) ==
    LET idle == [e EXCEPT !.isRunning = FALSE, !.currentProject = NoProject,
                          !.backgroundColor = White, !.completes = @ + 1]
    IN IF e.isFullscreen THEN toggleFullscreen(idle, granted) ELSE idle

\* The effect, run again after every render that changed one of its
\* dependencies, until it changes nothing.
RECURSIVE RunEffect(_, _, _)
RunEffect(e, hue, granted) ==
    IF IntervalArmed(e) THEN e
    ELSE IF Expired(e) THEN
        LET rung == [e EXCEPT !.alarms = @ + 1]
        IN IF HasNext(rung)
               THEN RunEffect(Advance(rung, hue), hue, granted)
               ELSE Complete(rung, granted)
    ELSE e

\* The values of the effect's dependency array (line 151) in e; projects, the
\* fifth, is changed by no engine handler.
DepsOf(e) == <<e.isRunning, e.isPaused, e.timeLeft, e.currentProject>>

\* The live timers after the effect ran again with live of them armed: its
\* cleanup clears the timer the previous run armed (line 150), then one is
\* armed under the condition of line 129.
Rearmed(live, e) ==
    (IF live > 0 THEN live - 1 ELSE 0) + (IF IntervalArmed(e) THEN 1 ELSE 0)

\* The commit of an engine handler's state updates, effect included.
Commit(e, op) ==
    /\ isRunning' = e.isRunning
    /\ isPaused' = e.isPaused
    /\ timeLeft' = e.timeLeft
    /\ currentProject' = e.currentProject
    /\ backgroundColor' = e.backgroundColor
    /\ isFullscreen' = e.isFullscreen
    /\ fullscreenElement' = e.fullscreenElement
    /\ alarms' = e.alarms
    /\ completes' = e.completes
    /\ lastOp' = op
    /\ timers' = IF DepsOf(e) = DepsOf(Engine) THEN timers ELSE Rearmed(timers, e)

NoStreak == [on |-> FALSE, start |-> 0, ticks |-> 0, alarms |-> 0, completes |-> 0]

\* A handler of the planning view: the engine state is untouched (the effect
\* runs with isRunning false and does nothing).
RegistryStep(op) ==
    /\ UNCHANGED engineVars
    /\ alarms' = 0
    /\ completes' = 0
    /\ lastOp' = op
    /\ streak' = NoStreak
    /\ timers' = Rearmed(timers, Engine)

---------------------------------------------------------------------------
(* Initial state: the useState initial values *)

Init ==
    /\ projects = <<>>
    /\ currentProject = NoProject
    /\ isRunning = FALSE
    /\ isPaused = FALSE
    /\ timeLeft = 0
    /\ backgroundColor = White
    /\ newProjectName = ""
    /\ newProjectDuration = <<>>
    /\ editingProject = Null
    /\ isFullscreen = FALSE
    /\ fullscreenElement = FALSE
    /\ lastOp = "init"
    /\ alarms = 0
    /\ completes = 0
    /\ streak = NoStreak
    /\ timers = 0

---------------------------------------------------------------------------
(* Planning view, rendered when !isRunning (line 160) *)

\* onChange of a name input (lines 177, 221).
SetNewProjectName(n) ==
    /\ ~isRunning
    /\ newProjectName' = n
    /\ UNCHANGED <<projects, newProjectDuration, editingProject>>
    /\ RegistryStep("setName")

\* onChange of a duration input (lines 190, 228).
SetNewProjectDuration(d) ==
    /\ ~isRunning
    /\ newProjectDuration' = d
    /\ UNCHANGED <<projects, newProjectName, editingProject>>
    /\ RegistryStep("setDuration")

\* addProject (lines 36-49), id the value Math.random gave.
addProject(id) ==
    /\ ~isRunning
    /\ Len(projects) < MaxProjects
    /\ IF ~FormFilled
           THEN UNCHANGED registryVars
           ELSE /\ projects' = Append(projects,
                                  [id |-> id, name |-> newProjectName,
                                   duration |-> DurationOf(newProjectDuration)])
                /\ newProjectName' = ""
                /\ newProjectDuration' = <<>>
                /\ UNCHANGED editingProject
    /\ RegistryStep("add")

\* A delete button that is also rendered while a run is active.
deleteProjectWhileRunning(i) ==
    /\ i \in 0 .. Len(projects) - 1
    /\ ~RowInEditMode(i)
    /\ projects' = SelectSeq(projects, LAMBDA p : p.id /= ProjectAt(i).id)
    /\ UNCHANGED <<newProjectName, newProjectDuration, editingProject>>
    /\ RegistryStep("delete")

\* deleteProject (lines 51-53), from the delete button of row i (line 261).
deleteProject(i) ==
    /\ ~isRunning
    /\ i \in 0 .. Len(projects) - 1
    /\ ~RowInEditMode(i)
    /\ projects' = SelectSeq(projects, LAMBDA p : p.id /= ProjectAt(i).id)
    /\ UNCHANGED <<newProjectName, newProjectDuration, editingProject>>
    /\ RegistryStep("delete")

\* startEditing (lines 55-59), from the edit button of row i (line 255).
startEditing(i) ==
    /\ ~isRunning
    /\ i \in 0 .. Len(projects) - 1
    /\ ~RowInEditMode(i)
    /\ editingProject' = ProjectAt(i).id
    /\ newProjectName' = ProjectAt(i).name
    /\ newProjectDuration' = NumberToString(ProjectAt(i).duration \div SecondsPerMinute)
    /\ UNCHANGED projects
    /\ RegistryStep("startEditing")

\* The projects.map of saveEdit without the conversion of minutes to seconds.
EditedProjectsInMinutes(id) ==
    [k \in 1 .. Len(projects) |->
        IF projects[k].id = id
            THEN [projects[k] EXCEPT !.name = newProjectName,
                                     !.duration = parseInt(newProjectDuration)]
            ELSE projects[k]]

\* The projects.map of saveEdit (lines 64-68).
EditedProjects(id) ==
    [k \in 1 .. Len(projects) |->
        IF projects[k].id = id
            THEN [projects[k] EXCEPT !.name = newProjectName,
                                     !.duration = DurationOf(newProjectDuration)]
            ELSE projects[k]]

\* saveEdit (lines 61-72), from the save button of row i (line 235).
saveEdit(i) ==
    /\ ~isRunning
    /\ i \in 0 .. Len(projects) - 1
    /\ RowInEditMode(i)
    /\ IF ~FormFilled
           THEN UNCHANGED registryVars
           ELSE /\ projects' = EditedProjects(ProjectAt(i).id)
                /\ editingProject' = Null
                /\ newProjectName' = ""
                /\ newProjectDuration' = <<>>
    /\ RegistryStep("saveEdit")

---------------------------------------------------------------------------
(* Countdown *)

\* startTracking taking startIndex for a 1-based position.
StartedOneBased(e, startIndex, hue) ==
    [e EXCEPT !.isRunning = TRUE, !.isPaused = FALSE,
              !.currentProject = startIndex + 1,
              !.timeLeft = ProjectAt(startIndex).duration,
              !.backgroundColor = generateRandomColor(hue)]

\* The state updates of startTracking (lines 77-81).
Started(e, startIndex, hue) ==
    [e EXCEPT !.isRunning = TRUE, !.isPaused = FALSE,
              !.currentProject = startIndex,
              !.timeLeft = ProjectAt(startIndex).duration,
              !.backgroundColor = generateRandomColor(hue)]

\* startTracking (lines 74-82), from the play button of row startIndex
\* (line 249) or the start button under the list (lines 273-275).
startTracking(startIndex, hue, granted) ==
    /\ ~isRunning
    /\ startIndex \in 0 .. Len(projects) - 1
    /\ startIndex = 0 \/ ~RowInEditMode(startIndex)
    /\ Len(projects) /= 0
    /\ LET e == RunEffect(Started(Engine, startIndex, hue), hue, granted)
       IN /\ Commit(e, "start")
          /\ streak' = [on |-> TRUE, start |-> startIndex, ticks |-> 0,
                        alarms |-> e.alarms, completes |-> e.completes]
    /\ UNCHANGED registryVars

\* One second of wall-clock time: the interval callback (line 131) fires if
\* the effect armed the interval, and nothing happens if it did not.
tick(hue, granted) ==
    /\ LET e == IF timers > 0
                    THEN RunEffect([Engine EXCEPT !.timeLeft = @ - 1], hue, granted)
                    ELSE Engine
       IN /\ Commit(e, "tick")
          /\ streak' = IF streak.on /\ timers > 0
                           THEN [streak EXCEPT !.ticks = @ + 1,
                                               !.alarms = @ + e.alarms,
                                               !.completes = @ + e.completes]
                           ELSE streak
    /\ UNCHANGED registryVars

\* togglePause (lines 84-86), from the button of the running view (line 294).
togglePause(hue, granted) ==
    /\ isRunning
    /\ Commit(RunEffect([Engine EXCEPT !.isPaused = ~@], hue, granted), "togglePause")
    /\ streak' = NoStreak
    /\ UNCHANGED registryVars

\* Whether the backward button is rendered (line 316).
CanNavigateBackward == currentProject > 0

\* Whether the forward button is rendered (line 328).
CanNavigateForward == currentProject < Len(projects) - 1

\* The state updates of a navigation button (lines 319-321, 331-333).
Navigated(e, target, hue) ==
    [e EXCEPT !.currentProject = target,
              !.timeLeft = ProjectAt(target).duration,
              !.backgroundColor = generateRandomColor(hue)]

\* The backward button of the running view (lines 316-327); with the button
\* not rendered there is nothing to click and nothing happens.
navigateBackward(hue, granted) ==
    /\ isRunning
    /\ Commit(IF CanNavigateBackward
                  THEN RunEffect(Navigated(Engine, currentProject - 1, hue), hue, granted)
                  ELSE Engine,
              "navigateBackward")
    /\ streak' = NoStreak
    /\ UNCHANGED registryVars

\* A forward button rendered at every index, wrapping to the first project
\* from the last.
navigateForwardWrapping(hue, granted) ==
    /\ isRunning
    /\ Commit(RunEffect(Navigated(Engine, (currentProject + 1) % Len(projects), hue),
                        hue, granted),
              "navigateForward")
    /\ streak' = NoStreak
    /\ UNCHANGED registryVars

\* The forward button of the running view (lines 328-339).
navigateForward(hue, granted) ==
    /\ isRunning
    /\ Commit(IF CanNavigateForward
                  THEN RunEffect(Navigated(Engine, currentProject + 1, hue), hue, granted)
                  ELSE Engine,
              "navigateForward")
    /\ streak' = NoStreak
    /\ UNCHANGED registryVars

\* returnToPlanning without its setIsPaused(false), as the completion branch
\* of the effect is written.
ReturnedKeepingPause(e, granted) ==
    LET idle == [e EXCEPT !.isRunning = FALSE,
                          !.currentProject = NoProject, !.backgroundColor = White]
    IN IF e.isFullscreen THEN toggleFullscreen(idle, granted) ELSE idle

\* The state updates of returnToPlanning (lines 89-95).
Returned(e, granted) ==
    LET idle == [e EXCEPT !.isRunning = FALSE, !.isPaused = FALSE,
                          !.currentProject = NoProject, !.backgroundColor = White]
    IN IF e.isFullscreen THEN toggleFullscreen(idle, granted) ELSE idle

\* returnToPlanning (lines 88-96), from the button of the running view (line 300).
returnToPlanning(hue, granted) ==
    /\ isRunning
    /\ Commit(RunEffect(Returned(Engine, granted), hue, granted), "exit")
    /\ streak' = NoStreak
    /\ UNCHANGED registryVars

\* The fullscreen button of the running view (line 288).
clickFullscreen(granted) ==
    /\ isRunning
    /\ Commit(toggleFullscreen(Engine, granted), "toggleFullscreen")
    /\ UNCHANGED streak
    /\ UNCHANGED registryVars

\* The browser leaves fullscreen (Esc) and handleFullscreenChange runs
\* (lines 118-120).
handleFullscreenChange ==
    /\ fullscreenElement
    /\ Commit([Engine EXCEPT !.fullscreenElement = FALSE, !.isFullscreen = FALSE],
              "fullscreenchange")
    /\ UNCHANGED streak
    /\ UNCHANGED registryVars

---------------------------------------------------------------------------
(* Specifications *)

\* The planning view's handlers, for names, durations and ids drawn from the
\* given samples.
RegistryNext(names, durations, ids) ==
    \/ \E n \in names : SetNewProjectName(n)
    \/ \E d \in durations : SetNewProjectDuration(d)
    \/ \E id \in ids : addProject(id)
    \/ \E i \in 0 .. MaxProjects : deleteProject(i)
    \/ \E i \in 0 .. MaxProjects : startEditing(i)
    \/ \E i \in 0 .. MaxProjects : saveEdit(i)

\* The countdown's handlers and the clock.
EngineNext(hues) ==
    \/ \E i \in 0 .. MaxProjects, hue \in hues, granted \in BOOLEAN :
          startTracking(i, hue, granted)
    \/ \E hue \in hues, granted \in BOOLEAN : tick(hue, granted)
    \/ \E hue \in hues, granted \in BOOLEAN : togglePause(hue, granted)
    \/ \E hue \in hues, granted \in BOOLEAN : navigateBackward(hue, granted)
    \/ \E hue \in hues, granted \in BOOLEAN : navigateForward(hue, granted)
    \/ \E hue \in hues, granted \in BOOLEAN : returnToPlanning(hue, granted)

FullscreenNext ==
    \/ \E granted \in BOOLEAN : clickFullscreen(granted)
    \/ handleFullscreenChange

\* The planning view and the countdown interleaved, on a small sample of
\* inputs: one name, durations of one minute, one hue.
Next ==
    \/ RegistryNext({"", "A"}, {<<>>, <<"1">>}, Ids)
    \/ EngineNext({0})

Spec == Init /\ [][Next]_vars

\* The planning view alone, on the full sample of inputs.
NextRegistry == RegistryNext(Names, DurationInputs, Ids)

SpecRegistry == Init /\ [][NextRegistry]_vars

\* A registry the planning view can build: project k has the k-th duration
\* of ds.
RegistryOf(ds) ==
    [k \in 1 .. Len(ds) |->
        [id |-> IF k % 2 = 1 THEN "id1" ELSE "id2", name |-> "A", duration |-> ds[k]]]

Durations == {DurationOf(d) : d \in EngineInputs}

RECURSIVE SeqsUpTo(_, _)
SeqsUpTo(S, n) ==
    IF n = 0 THEN {<<>>}
    ELSE LET shorter == SeqsUpTo(S, n - 1)
         IN shorter \cup {Append(q, x) : q \in shorter, x \in S}

\* The countdown and the fullscreen handlers, on every registry of durations
\* the planning view can build from EngineInputs.
InitEngine ==
    /\ projects \in {RegistryOf(ds) : ds \in SeqsUpTo(Durations, MaxProjects)}
    /\ currentProject = NoProject
    /\ isRunning = FALSE
    /\ isPaused = FALSE
    /\ timeLeft = 0
    /\ backgroundColor = White
    /\ newProjectName = ""
    /\ newProjectDuration = <<>>
    /\ editingProject = Null
    /\ isFullscreen = FALSE
    /\ fullscreenElement = FALSE
    /\ lastOp = "init"
    /\ alarms = 0
    /\ completes = 0
    /\ streak = NoStreak
    /\ timers = 0

NextEngine == EngineNext(Hues) \/ FullscreenNext

SpecEngine == InitEngine /\ [][NextEngine]_vars

---------------------------------------------------------------------------
(* Claims *)

RECURSIVE SumDurations(_)
\* duration[i] + ... + duration[N-1], i 0-based.
SumDurations(i) ==
    IF i > Len(projects) - 1 THEN 0
    ELSE ProjectAt(i).duration + SumDurations(i + 1)

\* Whether the field value s is a positive integer written in digits.
PositiveInteger(s) ==
    /\ s /= <<>>
    /\ \A k \in 1 .. Len(s) : IsDigit(s[k])
    /\ ParseDigits(s, 0) > 0

NavigateOps == {"navigateBackward", "navigateForward"}

\* C1: start(startIndex) followed by exactly sum(duration[startIndex..N-1])
\* ticks, with no pause, navigate or exit in between, leaves the engine Idle
\* with currentProject cleared, the alarm played N - startIndex times and the
\* run completed once.
C1_StartThenTicksCompletes ==
    (streak.on /\ streak.ticks = SumDurations(streak.start))
        => /\ ~isRunning
           /\ currentProject = NoProject
           /\ streak.alarms = Len(projects) - streak.start
           /\ streak.completes = 1

\* C2: while Paused a tick changes neither timeLeft nor currentProject, and
\* togglePause itself (pausing or resuming) leaves timeLeft and currentProject
\* as they are and only flips isPaused.
C2_PauseHaltsCountdown ==
    [][ /\ (isRunning /\ isPaused /\ lastOp' = "tick")
            => /\ timeLeft' = timeLeft
               /\ currentProject' = currentProject
               /\ isPaused' /\ isRunning'
        /\ (lastOp' = "togglePause")
            => /\ timeLeft' = timeLeft
               /\ currentProject' = currentProject
               /\ isPaused' = ~isPaused
               /\ isRunning' = isRunning ]_vars

\* C2 witness: a tick was attempted in a paused run that has time left.
C2_Witness == isRunning /\ isPaused /\ lastOp = "tick" /\ timeLeft > 0

\* C3: no navigate operation causes the alarm to be played.
C3_NavigateNeverAlarms == lastOp \in NavigateOps => alarms = 0

\* C4: in an active run a navigation with an in-range target moves
\* currentProject by exactly one, sets timeLeft to the full duration of the new
\* current project and leaves isPaused, isRunning and projects unchanged.
C4_NavigateMovesByOne ==
    [][ /\ (isRunning /\ CanNavigateForward /\ lastOp' = "navigateForward")
            => /\ currentProject' = currentProject + 1
               /\ timeLeft' = ProjectAt(currentProject + 1).duration
               /\ isPaused' = isPaused /\ isRunning' = isRunning
               /\ projects' = projects
        /\ (isRunning /\ CanNavigateBackward /\ lastOp' = "navigateBackward")
            => /\ currentProject' = currentProject - 1
               /\ timeLeft' = ProjectAt(currentProject - 1).duration
               /\ isPaused' = isPaused /\ isRunning' = isRunning
               /\ projects' = projects ]_vars

\* C5: navigating backward at index 0 or forward at the last index changes
\* nothing and plays no alarm, and no navigation leaves an active run with
\* currentProject outside [0, len).
C5_NavigateAtBoundsIsNoOp ==
    [][ /\ ( \/ (isRunning /\ currentProject = 0 /\ lastOp' = "navigateBackward")
              \/ (isRunning /\ currentProject = Len(projects) - 1
                    /\ lastOp' = "navigateForward") )
            => /\ UNCHANGED engineVars
               /\ UNCHANGED registryVars
               /\ alarms' = 0 /\ completes' = 0
        /\ (lastOp' \in NavigateOps /\ isRunning')
            => currentProject' \in 0 .. Len(projects') - 1 ]_vars

\* C5 witness: a navigation was attempted in a run over a single project,
\* where index 0 is both the first and the last.
C5_Witness ==
    isRunning /\ Len(projects) = 1 /\ currentProject = 0 /\ lastOp \in NavigateOps

\* C6: exit leaves the engine Idle (not running, not paused, currentProject
\* cleared, background white) without playing the alarm, and while Idle a
\* tick changes nothing.
C6_ExitReturnsToIdle ==
    /\ [](lastOp = "exit"
            => /\ ~isRunning /\ ~isPaused
               /\ currentProject = NoProject
               /\ backgroundColor = White
               /\ alarms = 0)
    /\ [][ (~isRunning /\ lastOp' = "tick")
            => /\ UNCHANGED engineVars
               /\ UNCHANGED registryVars
               /\ alarms' = 0 /\ completes' = 0 ]_vars

\* C6 witness: Idle with time left over from an exited run, and a tick has
\* passed since.
C6_Witness == ~isRunning /\ lastOp = "tick" /\ timeLeft > 0

\* C7: start(startIndex) on a non-empty list results in a Running, unpaused
\* run with currentProject = startIndex and timeLeft = the full duration of
\* projects[startIndex]; with an empty list the engine stays Idle.
C7_StartRunsFromStartIndex ==
    /\ lastOp = "start"
        => /\ isRunning /\ ~isPaused
           /\ currentProject = streak.start
           /\ timeLeft = ProjectAt(streak.start).duration
    /\ Len(projects) = 0 => ~isRunning

\* C8: add leaves the registry unchanged whenever the name is empty or the
\* duration is not a positive integer.
C8_InvalidAddIsNoOp ==
    [][ (lastOp' = "add"
            /\ (newProjectName = "" \/ ~PositiveInteger(newProjectDuration)))
            => projects' = projects ]_vars

\* C9: a valid edit (non-empty name, positive integer duration) keeps the
\* length of the list, gives the project with the edited id the new name and
\* duration = minutes x 60 at its position with its id unchanged, and leaves
\* every project with another id as it was.
C9_EditRoundTrip ==
    [][ (lastOp' = "saveEdit" /\ newProjectName /= ""
            /\ PositiveInteger(newProjectDuration))
            => /\ Len(projects') = Len(projects)
               /\ \A k \in 1 .. Len(projects) :
                     IF projects[k].id = editingProject
                         THEN /\ projects'[k].id = projects[k].id
                              /\ projects'[k].name = newProjectName
                              /\ projects'[k].duration
                                    = ParseDigits(newProjectDuration, 0) * 60
                         ELSE projects'[k] = projects[k] ]_vars

\* C9 witness: an edit was saved that gave the second of two projects, with
\* ids that differ, a twelve-minute duration and the name "B" while the
\* first kept the name "A".
C9_Witness ==
    /\ lastOp = "saveEdit" /\ editingProject = Null
    /\ Len(projects) = 2
    /\ projects[1].id /= projects[2].id
    /\ projects[1].name = "A"
    /\ projects[2].name = "B" /\ projects[2].duration = 720

\* C10: whenever a run is active, 0 <= currentProject < len(projects).
C10_CurrentProjectInRange ==
    isRunning => currentProject \in 0 .. Len(projects) - 1

\* C10 witness: a run over two projects that a tick advanced to the last one.
C10_Witness ==
    /\ isRunning /\ Len(projects) = 2 /\ currentProject = 1
    /\ lastOp = "tick" /\ alarms = 1

\* C11: no step taken while a run is active, and no step that starts a run,
\* changes the project list: throughout a run the list is the one it was
\* started on.
C11_ListFrozenDuringRun ==
    [][ (isRunning \/ isRunning') => projects' = projects ]_vars

\* C11 witness: a run over a registry of two projects has ticked.
C11_Witness ==
    /\ isRunning /\ Len(projects) = 2
    /\ lastOp = "tick" /\ timeLeft < ProjectAt(currentProject).duration

\* C12: a tick that brings timeLeft from 1 to 0 at an index that is not the
\* last plays the alarm exactly once, increases currentProject by exactly 1,
\* sets timeLeft to the full duration of the new current project and leaves
\* the run Running.
C12_ExpiryAdvancesByOne ==
    [][ (isRunning /\ ~isPaused /\ timeLeft = 1 /\ CanNavigateForward
            /\ lastOp' = "tick")
            => /\ alarms' = 1
               /\ currentProject' = currentProject + 1
               /\ timeLeft' = ProjectAt(currentProject + 1).duration
               /\ isRunning' /\ ~isPaused' ]_vars

\* C13: while the engine is Paused no step plays the alarm or completes the
\* run, and currentProject, timeLeft and isRunning change only by a
\* navigation or an exit.
C13_PausedNeverExpires ==
    [][ (isRunning /\ isPaused)
            => /\ alarms' = 0
               /\ completes' = 0
               /\ (lastOp' \notin (NavigateOps \cup {"exit"}))
                    => UNCHANGED <<currentProject, timeLeft, isRunning>> ]_vars

\* C14: at most one tick timer is armed at any time, and one is armed
\* exactly when the engine is Running (active and unpaused).
C14_OneTimerIffRunning ==
    /\ timers <= 1
    /\ (timers = 1) <=> (isRunning /\ ~isPaused)

\* C15: in every state of an active run, 0 <= timeLeft <= the duration of
\* the current project.
C15_RemainingWithinDuration ==
    isRunning => /\ 0 <= timeLeft
                 /\ timeLeft <= ProjectAt(currentProject).duration

\* C16: every project of the registry has a non-empty name and a duration
\* that is a positive multiple of 60 seconds.
C16_ProjectsWellFormed ==
    \A k \in 1 .. Len(projects) :
        /\ projects[k].name /= ""
        /\ projects[k].duration > 0
        /\ projects[k].duration % 60 = 0

\* C17: there is no state of an active, unpaused run in which the countdown
\* neither ticks nor advances: such a run always has time left for the next
\* tick to take, so that fair ticking brings it to completion.
C17_UnpausedRunCanTick ==
    (isRunning /\ ~isPaused) => timeLeft > 0

\* C18: after the engine returned to Idle, by an exit or by the expiry of the
\* last project, the page is not in fullscreen.
C18_IdleLeavesFullscreen ==
    (lastOp = "exit" \/ completes > 0) => ~fullscreenElement

\* C19: whenever no run is active the paused flag is false.
C19_IdleIsNotPaused == ~isRunning => ~isPaused

====
